---------------------------- MODULE Spec2Model ----------------------------
(***************************************************************************)
(* The browser chat client apps/web/static/js/chat.js as a state machine.  *)
(*                                                                         *)
(* The state is the part of the page the script reads and writes (the      *)
(* conversation list, the transcript, the conversation-id field, the text  *)
(* input, the checkbox, the microphone button label), the script's module  *)
(* variables (mediaRecorder, chunks, recording), the MediaRecorder objects *)
(* it created, the getUserMedia promises still pending, and the network:   *)
(* the requests in flight, in issue order.  One step is one run of the     *)
(* event loop: a DOM event handler up to its first await, or the           *)
(* continuation of a handler after the response it awaits.                 *)
(*                                                                         *)
(* Text is a sequence of one-character strings, so that trim, parseInt and *)
(* the number-to-string conversions are computed and not assumed.          *)
(***************************************************************************)
EXTENDS Integers, Sequences, FiniteSets

(***************************************************************************)
(* Bounds of the model: how long a server response is, and how many user   *)
(* events a behaviour holds.                                               *)
(***************************************************************************)
MaxListLen == 2

MaxHistoryLen == 2

\* How many clicks, submissions, presses and checkbox toggles a behaviour
\* holds altogether.
MaxUserEvents == 2

(***************************************************************************)
(* Text helpers.                                                           *)
(***************************************************************************)
Whitespace == {" ", "\t", "\n"}

Digits == <<"0", "1", "2", "3", "4", "5", "6", "7", "8", "9">>

RECURSIVE TrimStart(_)
TrimStart(s) ==
    IF s # <<>> /\ Head(s) \in Whitespace THEN TrimStart(Tail(s)) ELSE s

RECURSIVE TrimEnd(_)
TrimEnd(s) ==
    IF s # <<>> /\ s[Len(s)] \in Whitespace
    THEN TrimEnd(SubSeq(s, 1, Len(s) - 1))
    ELSE s

\* String.prototype.trim
Trim(s) == TrimEnd(TrimStart(s))

\* The value parseInt gives for a string with no leading digits.
NaN == -1

DigitValue(c) == CHOOSE d \in 0..9 : Digits[d + 1] = c

IsDigit(c) == \E d \in 0..9 : Digits[d + 1] = c

RECURSIVE ParseDigits(_, _)
ParseDigits(s, acc) ==
    IF s # <<>> /\ IsDigit(Head(s))
    THEN ParseDigits(Tail(s), 10 * acc + DigitValue(Head(s)))
    ELSE acc

\* parseInt(s, 10) on the strings the page holds (no sign): leading
\* whitespace is skipped, the leading digits are read, NaN when there are none.
ParseInt(s) ==
    LET t == TrimStart(s)
    IN  IF t # <<>> /\ IsDigit(Head(t)) THEN ParseDigits(t, 0) ELSE NaN

RECURSIVE NatToString(_)
NatToString(n) ==
    IF n < 10 THEN <<Digits[n + 1]>>
    ELSE NatToString(n \div 10) \o <<Digits[(n % 10) + 1]>>

\* String(n), as the assignment to an input's value and FormData.append do it.
StringOf(n) == IF n = NaN THEN <<"N", "a", "N">> ELSE NatToString(n)

\* A faulty serialisation: a field that holds no number is sent as 0.
JsonNumberOrZero(n) == IF n = NaN THEN <<"0">> ELSE NatToString(n)

\* JSON.stringify of a number: NaN is serialised as null.
JsonNumber(n) == IF n = NaN THEN <<"n", "u", "l", "l">> ELSE NatToString(n)

\* data.f || d: the field when it is present and truthy, else the default.
OrDefault(data, f, d) ==
    IF f \in DOMAIN data /\ data[f] # <<>> THEN data[f] ELSE d

NoReply == <<"(", "n", "o", " ", "r", "e", "p", "l", "y", ")">>

NoSpeech == <<"(", "n", "o", " ", "s", "p", "e", "e", "c", "h", ")">>

\* The two labels of the microphone button (the glyphs are written in ASCII).
MicGlyph == "[microphone]"

RecordingLabel == "[record] Recording..."

(***************************************************************************)
(* What the page markup supplies before the script runs.  The markup is    *)
(* not part of the script: the conversation-id field may be empty or       *)
(* pre-set, and the list container may hold a placeholder entry.           *)
(***************************************************************************)
InitialConvIdValues == {<<>>, <<"1">>}

PlaceholderLi == [text |-> <<"...">>, onclick |-> NaN]

InitialListContents == {<<>>, <<PlaceholderLi>>}

\* The label the markup gives the microphone button.
InitialMicLabel == MicGlyph

(***************************************************************************)
(* What the backend may answer.  A response is a network error (fetch      *)
(* rejects), a body that is not JSON (res.json() rejects), a JSON object   *)
(* or a JSON array.  The script never reads the status.                    *)
(***************************************************************************)
NetworkError == [kind |-> "neterr"]

BadJson(status) == [kind |-> "badjson", status |-> status]

JsonObject(status, data) == [kind |-> "object", status |-> status, data |-> data]

JsonArray(items) == [kind |-> "array", status |-> 200, data |-> [items |-> items]]

ErrorBody == [detail |-> <<"e", "r", "r">>]

Failures == {NetworkError, BadJson(502), JsonObject(500, ErrorBody)}

\* The k-th conversation the backend stores: the ids are 1, 12, 23, ...
StoredConversation(k) ==
    LET id == 11 * (k - 1) + 1
    IN  [id |-> id, title |-> <<"T">> \o StringOf(id), created_at |-> <<"d">> \o StringOf(id)]

ConversationLists == {[k \in 1..n |-> StoredConversation(k)] : n \in 0..MaxListLen}

ConversationsOutcomes == Failures \cup {JsonArray(l) : l \in ConversationLists}

\* The k-th message the backend stores for a conversation: roles alternate,
\* the assistant's messages carry an audio path.
StoredMessage(cid, k) ==
    IF k % 2 = 1
    THEN [role |-> "user", content |-> <<"m">> \o StringOf(k) \o <<"c">> \o StringOf(cid)]
    ELSE [role |-> "assistant", content |-> <<"m">> \o StringOf(k) \o <<"c">> \o StringOf(cid),
          audio_path |-> <<"/", "a">> \o StringOf(k)]

HistoryOutcomes(cid) ==
    Failures \cup {JsonArray([k \in 1..n |-> StoredMessage(cid, k)]) : n \in 0..MaxHistoryLen}

\* The answers to the chat request of the k-th submission.
ChatOutcomes(k) ==
    Failures \cup {JsonObject(200, [reply |-> <<"r">> \o StringOf(k)]),
                   JsonObject(200, [reply |-> <<>>])}

\* The answers to the upload of the k-th recorder.
SayOutcomes(k) ==
    Failures \cup {JsonObject(200, [transcript |-> <<"t">> \o StringOf(k),
                                    audio_url |-> <<"/", "u">> \o StringOf(k),
                                    reply |-> <<"r">> \o StringOf(k)]),
                   JsonObject(200, [transcript |-> <<>>, reply |-> <<>>])}

\* What the user may have typed when the form is submitted.
RawTexts == {<<>>, <<" ", "\t">>, <<" ", "h", "i", " ">>}

VARIABLES
    conversationsUl,  \* the <li> entries of #conversations, in document order
    messagesDiv,      \* the bubbles of #messages, in document order
    textInput,        \* #textInput.value
    useRagCb,         \* #useRag.checked
    convIdInput,      \* #conversationId.value
    micLabel,         \* #micBtn.textContent
    mediaRecorder,    \* the module variable: 0 (undefined) or a recorder
    chunks,           \* the module variable: the chunk accumulator
    recording,        \* the module variable: the recording flag
    recorders,        \* the MediaRecorder objects created so far
    presses,          \* the mousedown events so far, each with its getUserMedia promise
    alerts,           \* how many alerts were shown
    hasMediaDevices,  \* whether navigator.mediaDevices exists
    reqs,             \* the network: the requests in flight, in issue order
    nClicks,          \* how many list entries were clicked
    nSubmits,         \* how many times the form was submitted
    nToggles,         \* how many times the checkbox was toggled
    scrollTop         \* #messages.scrollTop, in bubbles

vars == <<conversationsUl, messagesDiv, textInput, useRagCb, convIdInput, micLabel,
          mediaRecorder, chunks, recording, recorders, presses, alerts,
          hasMediaDevices, reqs, nClicks, nSubmits, nToggles, scrollTop>>

pageVars == <<conversationsUl, messagesDiv, scrollTop, textInput, useRagCb, convIdInput>>

micVars == <<micLabel, mediaRecorder, chunks, recording, recorders, presses, alerts>>

\* The user events handled so far.
UserEvents == nClicks + nSubmits + nToggles + Len(presses) + alerts

\* A request: its url, what it carries, and the handler run that issued it
\* (by: 0 for init, else the click, the submission or the recorder).
Request(url, arg, by) == [url |-> url, arg |-> arg, by |-> by]

\* fetch(url, ...): the request joins the requests in flight.
Fetch(log, url, arg, by) == Append(log, Request(url, arg, by))

\* The response of the r-th request in flight has arrived: it leaves the network.
Settle(log, r) == SubSeq(log, 1, r - 1) \o SubSeq(log, r + 1, Len(log))

Pending(url) == {r \in DOMAIN reqs : reqs[r].url = url}

(***************************************************************************)
(* The state once the script has run to its last line: the handlers are    *)
(* registered and init() has issued the conversations fetch.               *)
(***************************************************************************)
Init ==
    /\ conversationsUl \in InitialListContents
    /\ messagesDiv = <<>>
    /\ textInput = <<>>
    /\ useRagCb = FALSE
    /\ convIdInput \in InitialConvIdValues
    /\ micLabel = InitialMicLabel
    /\ mediaRecorder = 0
    /\ chunks = <<>>
    /\ recording = FALSE
    /\ recorders = <<>>
    /\ presses = <<>>
    /\ alerts = 0
    /\ hasMediaDevices \in BOOLEAN
    /\ reqs = Fetch(<<>>, "/api/conversations", <<>>, 0)
    /\ nClicks = 0
    /\ nSubmits = 0
    /\ nToggles = 0
    /\ scrollTop = 0

(***************************************************************************)
(* The renderers.                                                          *)
(***************************************************************************)
Bubble(role, text, audioUrl) == [role |-> role, text |-> text, audio |-> audioUrl]

\* A faulty addMessage: the bubble is inserted before the others.
AddMessagePrepended(div, role, text, audioUrl) == <<Bubble(role, text, audioUrl)>> \o div

\* addMessage(role, text, audioUrl): one bubble more at the end of the
\* transcript.  An undefined text or audioUrl is passed as <<>>: the text
\* becomes '' and a falsy audioUrl adds no audio link.
AddMessage(div, role, text, audioUrl) == Append(div, Bubble(role, text, audioUrl))

\* new Date(t).toLocaleString(): depends on the locale, kept symbolic.
LocaleString(t) == <<"@">> \o t

\* The <li> of a conversation: its label and the conversation its onclick holds.
Li(c) ==
    [text |-> c.title \o <<" ", "-", " ">> \o LocaleString(c.created_at), onclick |-> c.id]

RECURSIVE AppendEach(_, _)
AppendEach(ul, items) ==
    IF items = <<>> THEN ul
    ELSE AppendEach(Append(ul, Li(Head(items))), Tail(items))

\* A faulty fetchConversations: the list is not emptied first.
RenderConversationsNoClear(ul, items) == AppendEach(ul, items)

\* fetchConversations, lines 12-22: the list is emptied, then one <li> per
\* conversation is appended.
RenderConversations(ul, items) == AppendEach(<<>>, items)

RECURSIVE AddEach(_, _)
AddEach(div, items) ==
    IF items = <<>> THEN div
    ELSE AddEach(AddMessage(div, Head(items).role,
                            OrDefault(Head(items), "content", <<>>),
                            OrDefault(Head(items), "audio_path", <<>>)),
                 Tail(items))

\* A faulty loadHistory: the transcript is not emptied first.
RenderHistoryNoClear(div, items) == AddEach(div, items)

\* loadHistory, lines 28-29: the transcript is emptied, then one bubble per
\* message is added.
RenderHistory(div, items) == AddEach(<<>>, items)

\* A faulty read of the field: an empty field counts as conversation 1.
SelectedIdOrFirst == IF convIdInput = <<>> THEN 1 ELSE ParseInt(convIdInput)

\* The conversation id a handler reads from the field.
SelectedId == ParseInt(convIdInput)

(***************************************************************************)
(* init, after the conversations response (its first step is in Init).     *)
(* A rejection ends init.  A JSON object empties the list and then throws  *)
(* (an object has no forEach), which ends init too.  A JSON array is       *)
(* rendered and init goes on to loadHistory, up to its fetch.              *)
(***************************************************************************)
FetchConversationsDone(r, resp) ==
    /\ r \in Pending("/api/conversations")
    /\ CASE resp.kind \in {"neterr", "badjson"} ->
              /\ reqs' = Settle(reqs, r)
              /\ UNCHANGED conversationsUl
         [] resp.kind = "object" ->
              /\ reqs' = Settle(reqs, r)
              /\ conversationsUl' = <<>>
         [] resp.kind = "array" ->
              /\ conversationsUl' = RenderConversations(conversationsUl, resp.data.items)
              /\ reqs' = Fetch(Settle(reqs, r), "/api/history", SelectedId, 0)
    /\ UNCHANGED <<messagesDiv, scrollTop, textInput, useRagCb, convIdInput,
                   micVars, hasMediaDevices, nClicks, nSubmits, nToggles>>

\* c.id, as the onclick closure of an entry holds it.
ClickedId(li) == li.onclick

\* A faulty onclick: the field is set to the entry's label.
SelectedValueLabel(li) == li.text

\* line 18: the string the field is set to.
SelectedValue(li) == StringOf(ClickedId(li))

\* A faulty onclick: loadHistory is given the id the field held before.
HistoryArgStale(li) == SelectedId

\* line 19: the id loadHistory is called with.
HistoryArg(li) == ClickedId(li)

\* li.onclick, lines 17-20, up to the fetch of loadHistory.
ClickConversation(i) ==
    /\ UserEvents < MaxUserEvents
    /\ i \in DOMAIN conversationsUl
    /\ conversationsUl[i].onclick # NaN
    /\ nClicks' = nClicks + 1
    /\ convIdInput' = SelectedValue(conversationsUl[i])
    /\ reqs' = Fetch(reqs, "/api/history", HistoryArg(conversationsUl[i]), nClicks')
    /\ UNCHANGED <<conversationsUl, messagesDiv, scrollTop, textInput, useRagCb,
                   micVars, hasMediaDevices, nSubmits, nToggles>>

\* loadHistory, lines 27-30, after the history response.
LoadHistoryDone(r, resp) ==
    /\ r \in Pending("/api/history")
    /\ reqs' = Settle(reqs, r)
    /\ CASE resp.kind \in {"neterr", "badjson"} ->
              UNCHANGED <<messagesDiv, scrollTop>>
         [] resp.kind = "object" ->
              /\ messagesDiv' = <<>>
              /\ scrollTop' = 0
         [] resp.kind = "array" ->
              /\ messagesDiv' = RenderHistory(messagesDiv, resp.data.items)
              /\ scrollTop' = Len(messagesDiv')
    /\ UNCHANGED <<conversationsUl, textInput, useRagCb, convIdInput,
                   micVars, hasMediaDevices, nClicks, nSubmits, nToggles>>

(***************************************************************************)
(* The chat form.                                                          *)
(***************************************************************************)
\* A faulty submit handler: the text is not trimmed.
SubmittedTextUntrimmed(raw) == raw

\* line 49: (textInput.value || '').trim()
SubmittedText(raw) == Trim(raw)

\* The submit handler, lines 48-54, up to the fetch.  The user has typed raw.
Submit(raw) ==
    /\ UserEvents < MaxUserEvents
    /\ nSubmits' = nSubmits + 1
    /\ IF SubmittedText(raw) = <<>>
       THEN /\ textInput' = raw
            /\ UNCHANGED <<messagesDiv, reqs>>
       ELSE /\ messagesDiv' = AddMessage(messagesDiv, "user", SubmittedText(raw), <<>>)
            /\ textInput' = <<>>
            /\ reqs' = Fetch(reqs, "/api/chat",
                             [conversation_id |-> JsonNumber(SelectedId),
                              text |-> SubmittedText(raw),
                              use_rag |-> useRagCb],
                             nSubmits')
    /\ UNCHANGED <<conversationsUl, scrollTop, useRagCb, convIdInput, micVars,
                   hasMediaDevices, nClicks, nToggles>>

\* The user ticks or unticks the retrieval checkbox, which lines 57 and 79 read.
ToggleRag ==
    /\ UserEvents < MaxUserEvents
    /\ nToggles' = nToggles + 1
    /\ useRagCb' = ~useRagCb
    /\ UNCHANGED <<conversationsUl, messagesDiv, scrollTop, textInput, convIdInput,
                   micVars, hasMediaDevices, reqs, nClicks, nSubmits>>

\* line 60: data.reply || '(no reply)'
ReplyText(data) == OrDefault(data, "reply", NoReply)

\* The submit handler, lines 59-61, after the chat response.
ChatDone(r, resp) ==
    /\ r \in Pending("/api/chat")
    /\ reqs' = Settle(reqs, r)
    /\ IF resp.kind \in {"neterr", "badjson"}
       THEN UNCHANGED <<messagesDiv, scrollTop>>
       ELSE /\ messagesDiv' = AddMessage(messagesDiv, "assistant", ReplyText(resp.data), <<>>)
            /\ scrollTop' = Len(messagesDiv')
    /\ UNCHANGED <<conversationsUl, textInput, useRagCb, convIdInput,
                   micVars, hasMediaDevices, nClicks, nSubmits, nToggles>>

(***************************************************************************)
(* The microphone button.  A recorder is a MediaRecorder object: its state *)
(* attribute, whether the task stop() queues (dataavailable, then stop) is *)
(* still to run, how often stop() was called on it, whether stop() was     *)
(* ever called on it while inactive, how many uploads its onstop issued,   *)
(* and the press that created it.                                          *)
(***************************************************************************)
NewRecorder(p) ==
    [state |-> "recording", stopTask |-> FALSE, stopCalls |-> 0,
     stoppedInactive |-> FALSE, uploads |-> 0, press |-> p]

\* MediaRecorder.stop(): the recorder turns inactive at once and the task
\* that fires dataavailable and stop is queued.  The call is recorded.
StopRecorder(rec) ==
    IF rec.state = "inactive"
    THEN [rec EXCEPT !.stopCalls = @ + 1, !.stoppedInactive = TRUE]
    ELSE [rec EXCEPT !.state = "inactive", !.stopTask = TRUE, !.stopCalls = @ + 1]

\* The mousedown handler, lines 69-70, up to the await of getUserMedia.
MouseDown ==
    /\ UserEvents < MaxUserEvents
    /\ IF ~hasMediaDevices
       THEN /\ alerts' = alerts + 1
            /\ UNCHANGED presses
       ELSE /\ presses' = Append(presses, [perm |-> "pending", released |-> FALSE, rec |-> 0])
            /\ UNCHANGED alerts
    /\ UNCHANGED <<pageVars, micLabel, mediaRecorder, chunks, recording, recorders,
                   hasMediaDevices, reqs, nClicks, nSubmits, nToggles>>

\* line 90: the label while recording.
LabelOnStart == RecordingLabel

\* A faulty release handler: the label is left as it is.
LabelOnStopStale == micLabel

\* line 98: the label once stopped.
LabelOnStop == MicGlyph

\* The mousedown handler, lines 71-90, once getUserMedia has given a stream.
GetUserMediaResolved(p) ==
    /\ p \in DOMAIN presses
    /\ presses[p].perm = "pending"
    /\ recorders' = Append(recorders, NewRecorder(p))
    /\ mediaRecorder' = Len(recorders')
    /\ chunks' = <<>>
    /\ recording' = TRUE
    /\ micLabel' = LabelOnStart
    /\ presses' = [presses EXCEPT ![p].perm = "granted", ![p].rec = Len(recorders')]
    /\ UNCHANGED <<pageVars, alerts, hasMediaDevices, reqs, nClicks, nSubmits, nToggles>>

\* getUserMedia rejects (the user denies the microphone): the handler ends.
GetUserMediaRejected(p) ==
    /\ p \in DOMAIN presses
    /\ presses[p].perm = "pending"
    /\ presses' = [presses EXCEPT ![p].perm = "denied"]
    /\ UNCHANGED <<pageVars, micLabel, mediaRecorder, chunks, recording, recorders,
                   alerts, hasMediaDevices, reqs, nClicks, nSubmits, nToggles>>

\* A faulty guard: only the handle is tested.
ReleaseGuardHandleOnly == mediaRecorder # 0

\* line 95: recording && mediaRecorder && mediaRecorder.state !== 'inactive'
ReleaseGuard ==
    /\ recording
    /\ mediaRecorder # 0
    /\ recorders[mediaRecorder].state # "inactive"

\* The handler of mouseup and of mouseleave, lines 94-100: the same function
\* is registered for both events, so one action stands for either.
MouseRelease ==
    /\ presses' = [p \in DOMAIN presses |-> [presses[p] EXCEPT !.released = TRUE]]
    /\ IF ReleaseGuard
       THEN /\ recorders' = [recorders EXCEPT ![mediaRecorder] = StopRecorder(@)]
            /\ recording' = FALSE
            /\ micLabel' = LabelOnStop
       ELSE UNCHANGED <<recorders, recording, micLabel>>
    /\ UNCHANGED <<pageVars, mediaRecorder, chunks, alerts, hasMediaDevices,
                   reqs, nClicks, nSubmits, nToggles>>

\* line 73: ondataavailable pushes the recorder's data to the shared chunks.
DataAvailable(buffer, k) == Append(buffer, [rec |-> k])

\* lines 75-79: the form data of the upload, from the chunks, the field and
\* the checkbox as they are when onstop runs.
SayForm(buffer, rag) ==
    [audio |-> buffer,
     conversation_id |-> StringOf(SelectedId),
     use_rag |-> IF rag THEN "true" ELSE "false"]

\* The task stop() queued: dataavailable with the recorder's data, then
\* onstop, lines 75-80, up to the fetch.
RecorderStopTask(k) ==
    /\ k \in DOMAIN recorders
    /\ recorders[k].stopTask
    /\ recorders' = [recorders EXCEPT ![k].stopTask = FALSE, ![k].uploads = @ + 1]
    /\ chunks' = DataAvailable(chunks, k)
    /\ reqs' = Fetch(reqs, "/api/say", SayForm(chunks', useRagCb), k)
    /\ UNCHANGED <<conversationsUl, messagesDiv, scrollTop, textInput, useRagCb, convIdInput,
                   micLabel, mediaRecorder, recording, presses, alerts,
                   hasMediaDevices, nClicks, nSubmits, nToggles>>

\* line 83: data.transcript || '(no speech)'
TranscriptText(data) == OrDefault(data, "transcript", NoSpeech)

\* onstop, lines 81-86, after the say response.
SayDone(r, resp) ==
    /\ r \in Pending("/api/say")
    /\ reqs' = Settle(reqs, r)
    /\ IF resp.kind \in {"neterr", "badjson"}
       THEN UNCHANGED <<messagesDiv, scrollTop>>
       ELSE /\ messagesDiv' =
                 AddMessage(AddMessage(messagesDiv, "user", TranscriptText(resp.data),
                                       OrDefault(resp.data, "audio_url", <<>>)),
                            "assistant", ReplyText(resp.data), <<>>)
            /\ scrollTop' = Len(messagesDiv')
    /\ UNCHANGED <<conversationsUl, textInput, useRagCb, convIdInput,
                   micVars, hasMediaDevices, nClicks, nSubmits, nToggles>>

Next ==
    \/ \E r \in Pending("/api/conversations") : \E resp \in ConversationsOutcomes : FetchConversationsDone(r, resp)
    \/ \E i \in DOMAIN conversationsUl : ClickConversation(i)
    \/ \E r \in Pending("/api/history") : \E resp \in HistoryOutcomes(reqs[r].arg) : LoadHistoryDone(r, resp)
    \/ \E raw \in RawTexts : Submit(raw)
    \/ ToggleRag
    \/ \E r \in Pending("/api/chat") : \E resp \in ChatOutcomes(reqs[r].by) : ChatDone(r, resp)
    \/ MouseDown
    \/ \E p \in DOMAIN presses : GetUserMediaResolved(p)
    \/ \E p \in DOMAIN presses : GetUserMediaRejected(p)
    \/ MouseRelease
    \/ \E k \in DOMAIN recorders : RecorderStopTask(k)
    \/ \E r \in Pending("/api/say") : \E resp \in SayOutcomes(reqs[r].by) : SayDone(r, resp)

Spec == Init /\ [][Next]_vars

(***************************************************************************)
(* The properties checked of the script.                                   *)
(***************************************************************************)
UserBubble(text) == Bubble("user", text, <<>>)

AssistantBubble(text) == Bubble("assistant", text, <<>>)

IsBlank(raw) == \A i \in DOMAIN raw : raw[i] \in Whitespace

\* A step is the run of the submit handler on a text that is not blank.
SubmitsText(raw) == ~IsBlank(raw) /\ Submit(raw)

\* A step is the continuation of a submit handler on a parsed chat response.
ChatAnswered(r, resp) ==
    /\ resp.kind = "object"
    /\ ChatDone(r, resp)

\* C1 as the specification words it: a submission of a text that is not
\* blank appends a user bubble with the trimmed text, and the chat response
\* appends an assistant bubble that carries the reply field, the placeholder
\* "(no reply)" standing in only when the response has no reply field.
C1_ReplyOrPlaceholderWhenAbsent ==
    [][/\ \A raw \in RawTexts :
            SubmitsText(raw) => messagesDiv' = Append(messagesDiv, UserBubble(Trim(raw)))
       /\ \A r \in Pending("/api/chat") :
            reqs' = Settle(reqs, r) =>
            \A resp \in ChatOutcomes(reqs[r].by) :
            ChatAnswered(r, resp) =>
                messagesDiv' = Append(messagesDiv,
                                      AssistantBubble(IF "reply" \in DOMAIN resp.data
                                                      THEN resp.data.reply
                                                      ELSE NoReply))]_vars

\* C1, amended: a submission of a text that is not blank appends a user
\* bubble with exactly the trimmed text, and the chat response, once it has
\* arrived and parsed, appends an assistant bubble that carries the reply,
\* or "(no reply)" when the reply field is absent or empty.
C1_SubmitThenReply ==
    [][/\ \A raw \in RawTexts :
            SubmitsText(raw) => messagesDiv' = Append(messagesDiv, UserBubble(Trim(raw)))
       /\ \A r \in Pending("/api/chat") :
            reqs' = Settle(reqs, r) =>
            \A resp \in ChatOutcomes(reqs[r].by) :
            ChatAnswered(r, resp) =>
                messagesDiv' = Append(messagesDiv,
                                      AssistantBubble(IF /\ "reply" \in DOMAIN resp.data
                                                         /\ resp.data.reply # <<>>
                                                      THEN resp.data.reply
                                                      ELSE NoReply))]_vars

\* " hi " was submitted and answered: the transcript is the user bubble "hi"
\* followed by the assistant bubble with the reply of the first submission.
C1_Witness ==
    /\ nSubmits = 1
    /\ Pending("/api/chat") = {}
    /\ messagesDiv = <<UserBubble(<<"h", "i">>), AssistantBubble(<<"r", "1">>)>>

\* C2: a submission of an empty or whitespace-only text appends no bubble and
\* issues no request; of the whole state only the count of submissions changes.
C2_BlankSubmitIsNoOp ==
    [][\A raw \in RawTexts :
          Submit(raw) /\ IsBlank(raw) =>
              /\ messagesDiv' = messagesDiv
              /\ reqs' = reqs
              /\ UNCHANGED <<conversationsUl, scrollTop, useRagCb, convIdInput, micVars>>
              /\ textInput' = raw]_vars

\* A whitespace-only text was submitted (it is still in the field) after a
\* text that was sent: the transcript holds the one bubble of the first
\* submission and the network its one chat request.
C2_Witness ==
    /\ nSubmits = 2
    /\ textInput = <<" ", "\t">>
    /\ Len(messagesDiv) = 1
    /\ Cardinality(Pending("/api/chat")) = 1

\* C3: every complete press-then-release cycle with media capture available
\* issues exactly one upload: once a press that was given a stream has been
\* followed by a release and no stop task of its recorder is still to run,
\* its recorder has issued exactly one /api/say request.
C3_OneUploadPerCycle ==
    \A p \in DOMAIN presses :
        (/\ presses[p].perm = "granted"
         /\ presses[p].released
         /\ ~recorders[presses[p].rec].stopTask)
        => recorders[presses[p].rec].uploads = 1

\* A step is a release while the current recorder is undefined or inactive.
ReleaseWithoutRecording ==
    /\ mediaRecorder = 0 \/ recorders[mediaRecorder].state = "inactive"
    /\ MouseRelease

\* C4: a release that arrives while no recorder is recording (the handle is
\* undefined or its recorder inactive) calls no stop, issues no upload and
\* leaves the recording flag and the button label as they were.
C4_ReleaseWithoutPressDoesNothing ==
    [][ReleaseWithoutRecording =>
          UNCHANGED <<recorders, reqs, recording, micLabel, chunks, mediaRecorder>>]_vars

\* A release has arrived after a press and before any recorder existed, and
\* nothing was stopped or uploaded.
C4_Witness ==
    /\ mediaRecorder = 0
    /\ \E p \in DOMAIN presses : presses[p].released
    /\ recorders = <<>>
    /\ Pending("/api/say") = {}
    /\ ~recording
    /\ micLabel = MicGlyph

\* C5: a click on a list entry sets the selected conversation id to the
\* entry's id and issues exactly one request, the history fetch for that id.
C5_ClickSelectsAndFetchesOnce ==
    [][\A i \in DOMAIN conversationsUl :
          ClickConversation(i) =>
              /\ ParseInt(convIdInput') = conversationsUl[i].onclick
              /\ Len(reqs') = Len(reqs) + 1
              /\ SubSeq(reqs', 1, Len(reqs)) = reqs
              /\ reqs'[Len(reqs')].url = "/api/history"
              /\ reqs'[Len(reqs')].arg = conversationsUl[i].onclick]_vars

\* The entry of conversation 12 was clicked: 12 is selected and the last
\* request issued is the history fetch for 12, by the first click.
C5_Witness ==
    /\ nClicks = 1
    /\ convIdInput = <<"1", "2">>
    /\ reqs # <<>>
    /\ reqs[Len(reqs)] = Request("/api/history", 12, 1)

\* The ids of the conversations the list loader has returned: the loader runs
\* once, and the entries it rendered hold them.
ReturnedIds == {conversationsUl[i].onclick : i \in DOMAIN conversationsUl} \ {NaN}

\* C6 as the specification words it: whenever the selected conversation id is
\* set, it is the id of a conversation the list loader has returned.
C6_SelectedIdWasReturned ==
    convIdInput # <<>> => SelectedId \in ReturnedIds

\* C6, amended: until the first click on a list entry the selected
\* conversation id is the value the page markup pre-set, and from the first
\* click on it is the id of a conversation the list loader has returned.
C6_SelectedIdPresetOrReturned ==
    /\ nClicks = 0 => convIdInput \in InitialConvIdValues
    /\ nClicks > 0 => SelectedId \in ReturnedIds /\ convIdInput = StringOf(SelectedId)

\* An entry was clicked and the selected id, 12, is not the pre-set one.
C6_Witness ==
    /\ nClicks > 0
    /\ SelectedId = 12
    /\ 12 \in ReturnedIds

\* A step is the continuation of init on a conversation list.
ListLoaded(r, resp) ==
    /\ resp.kind = "array"
    /\ FetchConversationsDone(r, resp)

\* C7: once the list loader has finished on a returned conversation list, the
\* rendered list holds exactly one entry per returned conversation, in
\* response order, and no entry of an earlier rendering.
C7_ListRendersResponse ==
    [][\A r \in Pending("/api/conversations") :
          conversationsUl' # conversationsUl \/ reqs' # reqs =>
          \A resp \in ConversationsOutcomes :
          ListLoaded(r, resp) =>
              /\ Len(conversationsUl') = Len(resp.data.items)
              /\ \A k \in DOMAIN resp.data.items :
                    /\ conversationsUl'[k].onclick = resp.data.items[k].id
                    /\ SubSeq(conversationsUl'[k].text, 1, Len(resp.data.items[k].title))
                           = resp.data.items[k].title]_vars

\* The list was loaded: it holds the entries of conversations 1 and 12, in
\* that order, and no placeholder of the markup.
C7_Witness ==
    /\ Pending("/api/conversations") = {}
    /\ Len(conversationsUl) = 2
    /\ conversationsUl[1].onclick = 1
    /\ conversationsUl[2].onclick = 12
    /\ PlaceholderLi \notin {conversationsUl[k] : k \in DOMAIN conversationsUl}

\* C8: between handlers the button shows the recording indicator exactly
\* when the recording flag is true, and the microphone glyph otherwise.
C8_LabelReflectsFlag ==
    /\ recording <=> micLabel = RecordingLabel
    /\ ~recording <=> micLabel = MicGlyph

\* A recorder was started and then stopped by a release: the flag is false
\* again and the button shows the microphone glyph.
C8_Witness ==
    /\ ~recording
    /\ micLabel = MicGlyph
    /\ mediaRecorder # 0
    /\ recorders[mediaRecorder].stopCalls = 1

\* C9: stop is never called on an inactive recorder, and no recorder is
\* stopped more than once, whatever releases follow one another.
C9_NoDoubleStop ==
    \A k \in DOMAIN recorders :
        /\ ~recorders[k].stoppedInactive
        /\ recorders[k].stopCalls <= 1
        /\ recorders[k].stopCalls = 0 <=> recorders[k].state = "recording"

\* A recorder was stopped by a release, its stop task has run and its upload
\* is in flight; further releases find the guard false.
C9_Witness ==
    /\ mediaRecorder # 0
    /\ recorders[mediaRecorder].stopCalls = 1
    /\ recorders[mediaRecorder].state = "inactive"
    /\ ~recorders[mediaRecorder].stopTask
    /\ ~ReleaseGuard
    /\ ENABLED MouseRelease

\* A step is the continuation of loadHistory on a returned message list.
HistoryLoaded(r, resp) ==
    /\ resp.kind = "array"
    /\ LoadHistoryDone(r, resp)

\* The bubble of a message of a history response.
MessageBubble(m) ==
    Bubble(m.role,
           IF "content" \in DOMAIN m THEN m.content ELSE <<>>,
           IF "audio_path" \in DOMAIN m THEN m.audio_path ELSE <<>>)

\* C10: when a history load completes, the transcript consists of exactly
\* the messages of its response, one bubble per message in response order,
\* and no bubble that was in the transcript before.
C10_HistoryReplacesTranscript ==
    [][\A r \in Pending("/api/history") :
          reqs' = Settle(reqs, r) =>
          \A resp \in HistoryOutcomes(reqs[r].arg) :
          HistoryLoaded(r, resp) =>
              /\ Len(messagesDiv') = Len(resp.data.items)
              /\ \A k \in DOMAIN resp.data.items :
                    messagesDiv'[k] = MessageBubble(resp.data.items[k])]_vars

\* A text was submitted (its chat request is in flight) and a history load
\* completed afterwards: the transcript holds the two messages of
\* conversation 1 and no longer the bubble of the submission.
C10_Witness ==
    /\ Pending("/api/chat") # {}
    /\ Pending("/api/history") = {}
    /\ Pending("/api/conversations") = {}
    /\ messagesDiv = <<MessageBubble(StoredMessage(1, 1)), MessageBubble(StoredMessage(1, 2))>>

\* The transcript and the list are as they were and the response's request
\* has left the network without another request joining it.
NothingRenderedOrIssued(r) ==
    /\ reqs' = Settle(reqs, r)
    /\ UNCHANGED <<messagesDiv, conversationsUl>>

\* C11: when the call of a handler fails (no connectivity, a status that is
\* not 2xx, a body that is not JSON), the handler issues no further request
\* and renders nothing: the transcript and the list stay as they were.
C11_FailureRendersNothing ==
    [][/\ \A r \in Pending("/api/conversations") : \A resp \in Failures :
            FetchConversationsDone(r, resp) => NothingRenderedOrIssued(r)
       /\ \A r \in Pending("/api/history") : \A resp \in Failures :
            LoadHistoryDone(r, resp) => NothingRenderedOrIssued(r)
       /\ \A r \in Pending("/api/chat") : \A resp \in Failures :
            ChatDone(r, resp) => NothingRenderedOrIssued(r)
       /\ \A r \in Pending("/api/say") : \A resp \in Failures :
            SayDone(r, resp) => NothingRenderedOrIssued(r)]_vars

\* The history requests in flight that init issued.
InitHistory == {r \in Pending("/api/history") : reqs[r].by = 0}

\* C12: init runs once and in order.  While the conversations request is in
\* flight no history request of init exists; the step that receives a
\* conversation list renders it and issues the one history request of init,
\* for the id the field holds at that moment; the step that receives a failed
\* conversations response issues no request; and once the conversations
\* request has left the network, init issues neither a conversations request
\* nor another history request.
C12_InitInOrder ==
    /\ [](/\ Cardinality(Pending("/api/conversations")) <= 1
          /\ Cardinality(InitHistory) <= 1
          /\ Pending("/api/conversations") # {} => InitHistory = {})
    /\ [][/\ \A r \in Pending("/api/conversations") :
               reqs' # reqs =>
               \A resp \in ConversationsOutcomes :
               FetchConversationsDone(r, resp) =>
                   IF resp.kind = "array"
                   THEN /\ Len(conversationsUl') = Len(resp.data.items)
                        /\ reqs' = Append(Settle(reqs, r),
                                          Request("/api/history", ParseInt(convIdInput), 0))
                   ELSE reqs' = Settle(reqs, r)
          /\ Pending("/api/conversations") = {} =>
               /\ \A r \in DOMAIN reqs' : reqs'[r].url # "/api/conversations"
               /\ Cardinality({r \in DOMAIN reqs' :
                                  reqs'[r].url = "/api/history" /\ reqs'[r].by = 0})
                     <= Cardinality(InitHistory)]_vars

\* The list was received and rendered with the field pre-set to 1: the one
\* history request of init is in flight, for conversation 1.
C12_Witness ==
    /\ Pending("/api/conversations") = {}
    /\ Len(conversationsUl) = 2
    /\ convIdInput = <<"1">>
    /\ Cardinality(InitHistory) = 1
    /\ \A r \in InitHistory : reqs[r].arg = 1

\* The conversation id a JSON body carries for the field as it is: the digits
\* of the field, or null when the field holds no number.
FieldAsJson == IF ParseInt(convIdInput) = NaN THEN <<"n", "u", "l", "l">> ELSE convIdInput

\* C13: when the submit handler issues the chat request for a text that is
\* not blank, the user bubble is the last bubble of the transcript, the text
\* input is empty, and the request carries the trimmed text and the
\* conversation id the field holds at that moment; as long as the request is
\* in flight, no later step (a selection change among them) alters what it
\* carries.
C13_OptimisticStepsThenRequest ==
    [][/\ \A raw \in RawTexts :
            SubmitsText(raw) =>
                /\ messagesDiv' # <<>>
                /\ messagesDiv'[Len(messagesDiv')] = UserBubble(Trim(raw))
                /\ textInput' = <<>>
                /\ Len(reqs') = Len(reqs) + 1
                /\ reqs'[Len(reqs')].url = "/api/chat"
                /\ reqs'[Len(reqs')].arg.text = Trim(raw)
                /\ reqs'[Len(reqs')].arg.conversation_id = FieldAsJson
       /\ \A r \in Pending("/api/chat") : \A q \in DOMAIN reqs' :
            (reqs'[q].url = "/api/chat" /\ reqs'[q].by = reqs[r].by)
                => reqs'[q].arg = reqs[r].arg]_vars

\* A text was submitted while conversation 1 was selected and conversation 12
\* was selected afterwards: the chat request in flight still carries 1.
C13_Witness ==
    /\ convIdInput = <<"1", "2">>
    /\ textInput = <<>>
    /\ \E r \in Pending("/api/chat") :
          /\ reqs[r].arg.conversation_id = <<"1">>
          /\ reqs[r].arg.text = <<"h", "i">>

\* C14: when history loads overlap, the transcript ends up with the history
\* of the selected conversation: the step that renders the history of a
\* conversation and leaves no history request in flight leaves a transcript
\* whose bubbles are the messages of the conversation the field holds.
C14_LastHistoryIsSelected ==
    [][\A r \in Pending("/api/history") :
          (reqs' = Settle(reqs, r) /\ Pending("/api/history") = {r} /\ reqs[r].arg # NaN) =>
          \A resp \in HistoryOutcomes(reqs[r].arg) :
          HistoryLoaded(r, resp) =>
              \A k \in DOMAIN messagesDiv' :
                  messagesDiv'[k] = MessageBubble(StoredMessage(ParseInt(convIdInput), k))]_vars

\* The bubbles of a transcript, as a set.
Bubbles(div) == {div[k] : k \in DOMAIN div}

\* The exchanges in flight: the chat requests and the speech uploads.
PendingExchanges == Pending("/api/chat") \cup Pending("/api/say")

\* The conversation id a request carries, as a number.
ExchangeConversation(req) ==
    IF req.url = "/api/chat"
    THEN (IF req.arg.conversation_id = <<"n", "u", "l", "l">>
          THEN NaN ELSE ParseInt(req.arg.conversation_id))
    ELSE ParseInt(req.arg.conversation_id)

\* C15: the bubbles of an exchange for a conversation stay with that
\* conversation.  The step that renders the response of a chat request or of
\* a speech upload finds the field on the conversation the request was sent
\* for, and a step that leaves a chat request in flight leaves its optimistic
\* user bubble in the transcript.
C15_ExchangeStaysInItsConversation ==
    [][/\ \A r \in PendingExchanges :
            (/\ reqs' = Settle(reqs, r)
             /\ messagesDiv' # messagesDiv
             /\ ExchangeConversation(reqs[r]) # NaN)
                => ExchangeConversation(reqs[r]) = ParseInt(convIdInput)
       /\ \A r \in Pending("/api/chat") :
            (/\ UserBubble(reqs[r].arg.text) \in Bubbles(messagesDiv)
             /\ ExchangeConversation(reqs[r]) # NaN
             /\ \E q \in DOMAIN reqs' : reqs'[q] = reqs[r])
                => UserBubble(reqs[r].arg.text) \in Bubbles(messagesDiv')]_vars

\* The transcript without its last n bubbles.
ButLast(div, n) == SubSeq(div, 1, Len(div) - n)

\* Two chat requests are in flight, r issued before q, and the transcript
\* ends with their two optimistic user bubbles, in submission order.
OverlappingSubmissions(r, q) ==
    /\ r < q
    /\ Len(messagesDiv) >= 2
    /\ messagesDiv[Len(messagesDiv) - 1] = UserBubble(reqs[r].arg.text)
    /\ messagesDiv[Len(messagesDiv)] = UserBubble(reqs[q].arg.text)

\* C16: when two submissions overlap, each assistant bubble is placed
\* directly after the user bubble of its own submission: the step that
\* renders the response of the earlier request puts its assistant bubble
\* between the two user bubbles, and the step that renders the response of
\* the later request puts its assistant bubble after the later user bubble.
C16_ReplyFollowsOwnSubmission ==
    [][\A r \in Pending("/api/chat") : \A q \in Pending("/api/chat") :
          OverlappingSubmissions(r, q) =>
              /\ \A resp \in ChatOutcomes(reqs[r].by) :
                    (reqs' = Settle(reqs, r) /\ ChatAnswered(r, resp)) =>
                        messagesDiv' = ButLast(messagesDiv, 1)
                                          \o <<AssistantBubble(ReplyText(resp.data))>>
                                          \o <<UserBubble(reqs[q].arg.text)>>
              /\ \A resp \in ChatOutcomes(reqs[q].by) :
                    (reqs' = Settle(reqs, q) /\ ChatAnswered(q, resp)) =>
                        messagesDiv' = Append(messagesDiv,
                                              AssistantBubble(ReplyText(resp.data)))]_vars

\* The recorders that are recording.
RecordingRecorders == {k \in DOMAIN recorders : recorders[k].state = "recording"}

\* C17: at most one recorder is recording at a time, and a recorder that is
\* recording is the one the module's handle refers to and belongs to a press
\* that has not been released yet: none is orphaned by a later press, and
\* none records on after the button was released.
C17_OneRecorderUnderTheHandle ==
    /\ Cardinality(RecordingRecorders) <= 1
    /\ \A k \in RecordingRecorders :
          /\ mediaRecorder = k
          /\ ~presses[recorders[k].press].released

\* The chunks a recorder captured, in capture order: start() is called
\* without a timeslice, so a recorder delivers its recording as one chunk.
CapturedChunks(k) == <<[rec |-> k]>>

\* C18: the audio of an upload consists of exactly the chunks its own
\* recorder captured, in capture order: every speech upload in flight
\* carries the chunks of the recorder whose stop callback issued it, and no
\* chunk of another recorder.
C18_UploadHoldsOwnChunks ==
    \A r \in Pending("/api/say") : reqs[r].arg.audio = CapturedChunks(reqs[r].by)
=============================================================================
